---- MODULE Spec2Model ----
(***************************************************************************)
(* Verification model of the leak-detection engine of 30secs:              *)
(*   - the streaming detector  (thirtysecs/alerts.py, MemoryLeakDetector), *)
(*   - the rule checker        (thirtysecs/alerts.py, AlertChecker),       *)
(*   - the batch analyzer      (thirtysecs/leak_report.py).                *)
(*                                                                         *)
(* Python floats are modelled as exact rationals [n, d] with d > 0; every  *)
(* comparison the code makes between floats is made by cross               *)
(* multiplication.  Sample values are integers.                            *)
(***************************************************************************)
EXTENDS Integers, Sequences, FiniteSets, TLC

VARIABLES
    ctor,                 \* "none" | "ok" | "error": outcome of constructing the detector
    window_size,          \* MemoryLeakDetector.window_size
    growth_threshold,     \* MemoryLeakDetector.growth_threshold
    cooldown_samples,     \* MemoryLeakDetector.cooldown_samples
    history,              \* MemoryLeakDetector._history (deque, maxlen = window_size)
    samples_since_alert,  \* MemoryLeakDetector._samples_since_alert (the cooldown counter)
    requested,            \* what the caller asked for at construction
    ingested,             \* every value passed to add_sample so far, in order
    last,                 \* the last call made and what it returned
    log,                  \* per AlertChecker.check call that ingested a value: "none" | "alert" | "error"
    rules,                \* AlertChecker.rules
    checked,              \* the last AlertChecker.check call: its snapshot and what it returned
    alert_marks,          \* how many samples had been ingested at the last alert, and since the alert before it
    cin,                  \* the input of _confidence_from_metrics
    cout,                 \* the result of _confidence_from_metrics
    samples,              \* the list of LeakSample handed to analyze_samples
    interval_seconds,     \* the sampling interval handed to analyze_samples
    analysis,             \* the outcome of analyze_samples
    series,               \* the value list handed to _linear_regression / _metric_delta
    regression,           \* the outcome of _linear_regression(series)
    delta,                \* the outcome of _metric_delta(series)
    ratio,                \* the outcome of _increasing_ratio(series)
    twin                  \* a second exclusive-memory delta for the same input, and its verdict

vars == <<ctor, window_size, growth_threshold, cooldown_samples, history,
          samples_since_alert, requested, ingested, last, log, rules, checked,
          alert_marks, cin, cout, samples, interval_seconds, analysis,
          series, regression, delta, ratio, twin>>

checker_vars == <<rules, checked>>

detector_vars == <<ctor, window_size, growth_threshold, cooldown_samples, history,
                   samples_since_alert, requested, ingested, last, log, rules, checked,
                   alert_marks>>

trend_vars == <<series, regression, delta, ratio>>

batch_vars == <<cin, cout, samples, interval_seconds, analysis, series, regression, delta,
                ratio, twin>>

-----------------------------------------------------------------------------
(* Bounds of the model *)

MaxWindow == 3        \* largest window_size asked for directly
MaxCooldown == 2      \* largest cooldown_samples asked for
MaxIngest == 5        \* number of add_sample calls explored
MaxFeed == 5          \* number of AlertChecker.check calls explored
MaxRules == 2         \* number of rules added to an AlertChecker
MaxSamples == 3       \* longest sample list handed to analyze_samples
MaxSampleCount == 6   \* longest series handed to _confidence_from_metrics
MaxShortCapture == 4  \* longest capture enumerated value by value
MaxAlternating == 8   \* longest alternating capture
MaxSteep == 8         \* longest arithmetic capture with a step above 1
MaxSlow == 20         \* longest arithmetic capture with step 1
MaxResourceLen == 5   \* longest capture whose resource counts vary
MaxValues == 5        \* longest value list enumerated value by value
MaxOptionalLen == 4   \* longest capture whose optional metrics come and go
MaxWatch == 3         \* number of ingesting checks of a checker with rules and a detector
MaxTwinCount == 5     \* longest series classified under two exclusive-memory deltas
MaxZeroStart == 5     \* longest capture enumerated from a first sample without resident memory

(* Program constants *)

DefaultCooldownSamples == 3
DefaultWindowSize == 10
DefaultGrowthThreshold == 5

(* Inputs *)

SampleValues == {0, 1, 2}            \* memory-percent readings fed directly
FeedValues == 0 .. 3                 \* memory.virtual.percent readings in snapshots
WindowChoices == -1 .. MaxWindow
ThresholdChoices == {-1, 0, 1, 2}
CooldownChoices == 0 .. MaxCooldown

-----------------------------------------------------------------------------
(* Exact rationals standing for Python floats *)

Rat(n, d) == [n |-> n, d |-> d]

RatGE(a, b) == a.n * b.d >= b.n * a.d

RatGT(a, b) == a.n * b.d > b.n * a.d

RatEQ(a, b) == a.n * b.d = b.n * a.d

RatOfInt(i) == Rat(i, 1)

Zero == Rat(0, 1)

RECURSIVE gcd(_, _)
gcd(a, b) == IF b = 0 THEN a ELSE gcd(b, a % b)

\* the same rational in lowest terms
Reduced(n, d) ==
    LET g == gcd(IF n < 0 THEN -n ELSE n, d)
    IN  Rat(n \div g, d \div g)

RECURSIVE SumSeq(_)
SumSeq(s) == IF s = <<>> THEN 0 ELSE Head(s) + SumSeq(Tail(s))

-----------------------------------------------------------------------------
(* MemoryLeakDetector *)

Opt(given, val) == [given |-> given, val |-> val]

NoResult == [op |-> "init", kind |-> "none", value |-> Zero]

NoAlertYet == [at |-> -1, gap |-> -1]

\* an alert emitted when n samples had been ingested
mark_alert(marks, n) == [at |-> n, gap |-> IF marks.at >= 0 THEN n - marks.at ELSE -1]

\* `x or default`: the default replaces None and every falsy value (0, 0.0).
or_default(arg, default) == IF arg.given /\ arg.val # 0 THEN arg.val ELSE default

\* deque(maxlen=...) raises ValueError for a negative maxlen and for nothing else.
post_init_ok(w) == w >= 0

\* deque.append under maxlen: at capacity the oldest element is discarded;
\* a deque of maxlen 0 stays empty.
deque_append_keep_oldest(q, v, maxlen) ==
    IF Len(q) >= maxlen THEN q ELSE Append(q, v)

\* a buffer that starts over when it is full
deque_append_restart(q, v, maxlen) ==
    IF maxlen = 0 THEN <<>>
    ELSE IF Len(q) >= maxlen THEN <<v>>
    ELSE Append(q, v)

deque_append(q, v, maxlen) ==
    IF maxlen = 0 THEN <<>>
    ELSE IF Len(q) >= maxlen THEN Append(Tail(q), v)
    ELSE Append(q, v)

cooldown_after_add_never(cd) == cd

\* an add_sample that ends the cooldown at once
cooldown_after_add_to_zero(cd) == 0

cooldown_after_add(cd) == IF cd > 0 THEN cd - 1 ELSE cd

\* samples[: window_size // 2] and samples[window_size // 2 :]
first_half(s, w) == SubSeq(s, 1, w \div 2)

second_half(s, w) == SubSeq(s, (w \div 2) + 1, Len(s))

\* second_half_avg - first_half_avg, both halves non-empty
half_growth(s, w) ==
    LET n1 == w \div 2
        n2 == w - (w \div 2)
    IN  Rat(SumSeq(second_half(s, w)) * n1 - SumSeq(first_half(s, w)) * n2, n1 * n2)

increasing_count(s) == Cardinality({i \in 2 .. Len(s) : s[i] > s[i - 1]})

trend_ratio(s) == Rat(increasing_count(s), Len(s) - 1)

TrendGate == Rat(6, 10)

gate_growth_only(s, w, t) == RatGE(half_growth(s, w), RatOfInt(t))

gate(s, w, t) ==
    RatGE(half_growth(s, w), RatOfInt(t)) /\ RatGE(trend_ratio(s), TrendGate)

buffer_not_full_never(s, w) == FALSE

buffer_not_full(s, w) == Len(s) < w

cooldown_active(cd) == cd > 0

\* an alert that leaves the cooldown counter as it was
leak_result_no_rearm(s, w, t, cd, c) ==
    IF buffer_not_full(s, w) THEN [kind |-> "none", value |-> Zero, cooldown |-> cd]
    ELSE IF cooldown_active(cd) THEN [kind |-> "none", value |-> Zero, cooldown |-> cd]
    ELSE IF w \div 2 = 0 THEN [kind |-> "error", value |-> Zero, cooldown |-> cd]
    ELSE IF gate(s, w, t)
         THEN [kind |-> "alert", value |-> half_growth(s, w), cooldown |-> cd]
         ELSE [kind |-> "none", value |-> Zero, cooldown |-> cd]

\* check_leak as a function of the detector's fields: what it returns and the
\* cooldown counter it leaves.  Dividing by window_size // 2 = 0 raises
\* ZeroDivisionError before anything is assigned.
leak_result(s, w, t, cd, c) ==
    IF buffer_not_full(s, w) THEN [kind |-> "none", value |-> Zero, cooldown |-> cd]
    ELSE IF cooldown_active(cd) THEN [kind |-> "none", value |-> Zero, cooldown |-> cd]
    ELSE IF w \div 2 = 0 THEN [kind |-> "error", value |-> Zero, cooldown |-> cd]
    ELSE IF gate(s, w, t)
         THEN [kind |-> "alert", value |-> half_growth(s, w), cooldown |-> c]
         ELSE [kind |-> "none", value |-> Zero, cooldown |-> cd]

\* MemoryLeakDetector(window_size=w, growth_threshold=t, cooldown_samples=c)
MemoryLeakDetector_init(w, t, c) ==
    /\ ctor = "none"
    /\ requested' = [via |-> "direct", window |-> Opt(TRUE, w), threshold |-> Opt(TRUE, t)]
    /\ IF post_init_ok(w)
       THEN /\ ctor' = "ok"
            /\ window_size' = w
            /\ growth_threshold' = t
            /\ cooldown_samples' = c
       ELSE /\ ctor' = "error"
            /\ UNCHANGED <<window_size, growth_threshold, cooldown_samples>>
    /\ last' = [op |-> "construct", kind |-> IF post_init_ok(w) THEN "none" ELSE "error",
                value |-> Zero]
    /\ UNCHANGED <<history, samples_since_alert, ingested, log>>
    /\ UNCHANGED checker_vars
    /\ UNCHANGED alert_marks
    /\ UNCHANGED batch_vars

\* AlertChecker.enable_memory_leak_detection(window_size=w, growth_threshold=t)
enable_memory_leak_detection(w, t) ==
    LET ew == or_default(w, DefaultWindowSize)
        et == or_default(t, DefaultGrowthThreshold)
    IN  /\ ctor = "none"
        /\ requested' = [via |-> "enable", window |-> w, threshold |-> t]
        /\ IF post_init_ok(ew)
           THEN /\ ctor' = "ok"
                /\ window_size' = ew
                /\ growth_threshold' = et
                /\ cooldown_samples' = DefaultCooldownSamples
           ELSE /\ ctor' = "error"
                /\ UNCHANGED <<window_size, growth_threshold, cooldown_samples>>
        /\ last' = [op |-> "enable", kind |-> IF post_init_ok(ew) THEN "none" ELSE "error",
                    value |-> Zero]
        /\ UNCHANGED <<history, samples_since_alert, ingested, log>>
        /\ UNCHANGED checker_vars
        /\ UNCHANGED alert_marks
        /\ UNCHANGED batch_vars

add_sample(v) ==
    /\ ctor = "ok"
    /\ Len(ingested) < MaxIngest
    /\ history' = deque_append(history, v, window_size)
    /\ samples_since_alert' = cooldown_after_add(samples_since_alert)
    /\ ingested' = Append(ingested, v)
    /\ last' = [op |-> "add_sample", kind |-> "none", value |-> Zero]
    /\ UNCHANGED <<ctor, window_size, growth_threshold, cooldown_samples, requested, log>>
    /\ UNCHANGED checker_vars
    /\ UNCHANGED alert_marks
    /\ UNCHANGED batch_vars

check_leak ==
    LET r == leak_result(history, window_size, growth_threshold,
                         samples_since_alert, cooldown_samples)
    IN  /\ ctor = "ok"
        /\ samples_since_alert' = r.cooldown
        /\ last' = [op |-> "check_leak", kind |-> r.kind, value |-> r.value]
        /\ alert_marks' = IF r.kind = "alert" THEN mark_alert(alert_marks, Len(ingested))
                          ELSE alert_marks
        /\ UNCHANGED <<ctor, window_size, growth_threshold, cooldown_samples, history,
                       requested, ingested, log>>
        /\ UNCHANGED checker_vars
        /\ UNCHANGED batch_vars

-----------------------------------------------------------------------------
(* AlertChecker *)

\* A snapshot is a nested mapping; its leaves are numbers, booleans or strings.
Num(v) == [kind |-> "num", val |-> v, items |-> <<>>]

Bool(b) == [kind |-> "bool", val |-> IF b THEN 1 ELSE 0, items |-> <<>>]

Str == [kind |-> "str", val |-> 0, items |-> <<>>]

Dict(f) == [kind |-> "dict", val |-> 0, items |-> f]

EmptyDict == Dict(<<>>)

\* every leaf taken for a number
is_number_any_leaf(node) == node.kind \in {"num", "bool", "str"}

\* isinstance(current, int | float), which a bool satisfies; float(True) is 1.0
is_number(node) == node.kind \in {"num", "bool"}

\* _get_nested_value(data, path): the metric path is held as its keys, the
\* result of path.split("."); the value is float(current), or None.
RECURSIVE get_nested_value(_, _)
get_nested_value(current, keys) ==
    IF keys = <<>>
    THEN IF is_number(current) THEN Opt(TRUE, RatOfInt(current.val)) ELSE Opt(FALSE, Zero)
    ELSE IF current.kind = "dict" /\ Head(keys) \in DOMAIN current.items
         THEN get_nested_value(current.items[Head(keys)], Tail(keys))
         ELSE Opt(FALSE, Zero)

Text(text, args) == [text |-> text, args |-> args]

AlertRule(name, metric, operator, threshold, message) ==
    [name |-> name, metric |-> metric, operator |-> operator, threshold |-> threshold,
     message |-> message]

Alert(rule, value, message) == [rule |-> rule, value |-> value, message |-> message]

triggered_strict_only(operator, value, threshold) ==
    \/ operator \in {"gt", "gte"} /\ RatGT(value, RatOfInt(threshold))
    \/ operator \in {"lt", "lte"} /\ RatGT(RatOfInt(threshold), value)
    \/ operator = "eq" /\ RatEQ(value, RatOfInt(threshold))

triggered(operator, value, threshold) ==
    \/ operator = "gt" /\ RatGT(value, RatOfInt(threshold))
    \/ operator = "gte" /\ RatGE(value, RatOfInt(threshold))
    \/ operator = "lt" /\ RatGT(RatOfInt(threshold), value)
    \/ operator = "lte" /\ RatGE(RatOfInt(threshold), value)
    \/ operator = "eq" /\ RatEQ(value, RatOfInt(threshold))

\* rule.message or f"{rule.name}: {rule.metric} is {value} ({rule.operator} {rule.threshold})"
rule_message(rule, value) ==
    IF rule.message.text # "" THEN rule.message
    ELSE Text("{name}: {metric} is {value} ({operator} {threshold})",
              <<rule.name, rule.metric, value, rule.operator, rule.threshold>>)

\* the alerts of the rules loop, in rule order
RECURSIVE rule_alerts(_, _)
rule_alerts(rs, snapshot) ==
    IF rs = <<>> THEN <<>>
    ELSE LET rule == Head(rs)
             value == get_nested_value(snapshot, rule.metric)
         IN  (IF value.given /\ triggered(rule.operator, value.val, rule.threshold)
              THEN <<Alert(rule, value.val, rule_message(rule, value.val))>>
              ELSE <<>>)
             \o rule_alerts(Tail(rs), snapshot)

\* MemoryLeakDetector._slope: the least-squares slope of the samples, with
\* ss_xy = XY / (2n) and ss_xx = XX / 4 for the integer sums XY and XX
RECURSIVE slope_xy(_, _, _, _)
slope_xy(s, n, S, i) ==
    IF i = 0 THEN 0
    ELSE (2 * i - n - 1) * (n * s[i] - S) + slope_xy(s, n, S, i - 1)

RECURSIVE slope_xx(_, _)
slope_xx(n, i) ==
    IF i = 0 THEN 0 ELSE (2 * i - n - 1) * (2 * i - n - 1) + slope_xx(n, i - 1)

slope(s) ==
    LET n == Len(s)
        xx == slope_xx(n, n)
    IN  IF n < 2 \/ xx = 0 THEN Zero
        ELSE Reduced(2 * slope_xy(s, n, SumSeq(s), n), n * xx)

\* the Alert check_leak builds when the gate passes
leak_alert(s, w, t) ==
    LET message == Text("Potential memory leak: +{growth}% over {window_size} samples (trend: {trend_ratio} increasing, slope: {slope}%/sample)",
                        <<half_growth(s, w), w, trend_ratio(s), slope(s)>>)
    IN  Alert(AlertRule("Memory Leak Detected", <<"memory", "virtual", "percent">>,
                        "trend", t, message),
              half_growth(s, w), message)

NotChecked == [status |-> "idle"]

\* what a check call returned, with the rules and the snapshot it was made on
Returned(rs, snapshot, alerts) ==
    [status |-> "ok", rules |-> rs, snapshot |-> snapshot, alerts |-> alerts]

Failed(rs, snapshot, error) ==
    [status |-> "error", rules |-> rs, snapshot |-> snapshot, error |-> error]

add_rule(rule) ==
    /\ Len(rules) < MaxRules
    /\ rules' = Append(rules, rule)
    /\ UNCHANGED <<ctor, window_size, growth_threshold, cooldown_samples, history,
                   samples_since_alert, requested, ingested, last, log, checked,
                   alert_marks>>
    /\ UNCHANGED batch_vars

\* AlertChecker.check(snapshot): the rules loop, then, for a checker that owns
\* a detector, a numeric memory.virtual.percent is ingested and checked.  An
\* exception of check_leak leaves check without a return value.
check(snapshot) ==
    LET memory_percent == get_nested_value(snapshot, <<"memory", "virtual", "percent">>)
        alerts == rule_alerts(rules, snapshot)
    IN  /\ Len(log) < MaxFeed
        /\ IF ctor = "ok" /\ memory_percent.given
           THEN LET h == deque_append(history, memory_percent.val.n, window_size)
                    cd == cooldown_after_add(samples_since_alert)
                    r == leak_result(h, window_size, growth_threshold, cd, cooldown_samples)
                IN  /\ history' = h
                    /\ samples_since_alert' = r.cooldown
                    /\ ingested' = Append(ingested, memory_percent.val.n)
                    /\ log' = Append(log, r.kind)
                    /\ last' = [op |-> "check", kind |-> r.kind, value |-> r.value]
                    /\ alert_marks' = IF r.kind = "alert"
                                      THEN mark_alert(alert_marks, Len(ingested) + 1)
                                      ELSE alert_marks
                    /\ checked' =
                          IF r.kind = "error" THEN Failed(rules, snapshot, "ZeroDivisionError")
                          ELSE IF r.kind = "alert"
                          THEN Returned(rules, snapshot,
                                        alerts \o <<leak_alert(h, window_size, growth_threshold)>>)
                          ELSE Returned(rules, snapshot, alerts)
           ELSE /\ last' = [op |-> "check", kind |-> "none", value |-> Zero]
                /\ checked' = Returned(rules, snapshot, alerts)
                /\ UNCHANGED <<history, samples_since_alert, ingested, log, alert_marks>>
        /\ UNCHANGED <<ctor, window_size, growth_threshold, cooldown_samples, requested, rules>>
        /\ UNCHANGED batch_vars

\* snapshots as core.py builds them, reduced to the memory reading
memory_snapshot(v) ==
    Dict([k \in {"memory"} |-> Dict([k2 \in {"virtual"} |-> Dict([k3 \in {"percent"} |-> Num(v)])])])

Snapshots == {memory_snapshot(v) : v \in FeedValues} \cup {EmptyDict}

(* Rules and the snapshots they are checked against *)

cpu_snapshot(node) == Dict([k \in {"cpu"} |-> Dict([k2 \in {"percent"} |-> node])])

RuleSnapshots ==
    {cpu_snapshot(Num(v)) : v \in {1, 2, 3}}
    \cup {cpu_snapshot(Str), cpu_snapshot(Bool(TRUE)),
          cpu_snapshot(Dict([k \in {"user"} |-> Num(3)])),
          Dict([k \in {"cpu"} |-> Num(2)]),
          EmptyDict}

RulePaths == {<<"cpu", "percent">>, <<"cpu">>, <<"cpu", "percent", "user">>}
RuleOperators == {"gt", "gte", "lt", "lte", "eq", "ne"}
RuleThreshold == 2

Rules ==
    {AlertRule("rule", metric, operator, RuleThreshold, Text("", <<>>)) :
        metric \in RulePaths, operator \in RuleOperators}
    \cup {AlertRule("custom", <<"cpu", "percent">>, "gte", RuleThreshold, Text("cpu is high", <<>>))}

OptArgs(S) == {Opt(TRUE, x) : x \in S} \cup {Opt(FALSE, 0)}

(* A checker with both rules and a detector, and the snapshots it is given *)

\* a snapshot with a memory.virtual.percent node and a cpu.percent reading
watch_snapshot(memory_node, cpu) ==
    Dict([k \in {"memory", "cpu"} |->
            IF k = "memory"
            THEN Dict([k2 \in {"virtual"} |-> Dict([k3 \in {"percent"} |-> memory_node])])
            ELSE Dict([k2 \in {"percent"} |-> Num(cpu)])])

WatchValues == {0, 2, 4}
WatchCpu == 3

WatchSnapshots ==
    {watch_snapshot(Num(v), WatchCpu) : v \in WatchValues}
    \cup {watch_snapshot(Str, WatchCpu), watch_snapshot(Bool(TRUE), WatchCpu),
          watch_snapshot(EmptyDict, WatchCpu), cpu_snapshot(Num(WatchCpu))}

WatchRules ==
    {AlertRule("memory high", <<"memory", "virtual", "percent">>, "gte", RuleThreshold,
               Text("", <<>>)),
     AlertRule("cpu high", <<"cpu", "percent">>, "gt", RuleThreshold, Text("", <<>>))}

WatchWindows == 1 .. MaxWindow
WatchThreshold == 1
WatchCooldowns == {0, 1}

-----------------------------------------------------------------------------
(* leak_report.py: trend estimation, metric deltas, the confidence policy   *)

\* With n values v[1..n] standing for indices 0..n-1 and S their sum:
\*   ss_xy = XY / (2n),  ss_xx = XX / 4,  ss_yy = YY / n^2
\* where XY, XX, YY are the integer sums below (i is the 1-based position).
RECURSIVE reg_xy(_, _, _, _)
reg_xy(values, n, S, i) ==
    IF i = 0 THEN 0
    ELSE (2 * i - n - 1) * (n * values[i] - S) + reg_xy(values, n, S, i - 1)

RECURSIVE reg_xx(_, _)
reg_xx(n, i) ==
    IF i = 0 THEN 0 ELSE (2 * i - n - 1) * (2 * i - n - 1) + reg_xx(n, i - 1)

RECURSIVE reg_yy(_, _, _, _)
reg_yy(values, n, S, i) ==
    IF i = 0 THEN 0
    ELSE (n * values[i] - S) * (n * values[i] - S) + reg_yy(values, n, S, i - 1)

\* the slope divided by the spread of the values instead of the indices
linear_regression_swapped(values) ==
    LET n == Len(values)
        S == SumSeq(values)
        xy == reg_xy(values, n, S, n)
        xx == reg_xx(n, n)
        yy == reg_yy(values, n, S, n)
    IN  IF n < 2 THEN [slope |-> Zero, r_squared |-> Zero]
        ELSE IF xx = 0 \/ yy = 0 THEN [slope |-> Zero, r_squared |-> Zero]
        ELSE [slope |-> Reduced(n * xy, 2 * yy), r_squared |-> Reduced(xy * xy, xx * yy)]

\* r_squared divided by the value sum of squares alone
linear_regression_no_index_spread(values) ==
    LET n == Len(values)
        S == SumSeq(values)
        xy == reg_xy(values, n, S, n)
        xx == reg_xx(n, n)
        yy == reg_yy(values, n, S, n)
    IN  IF n < 2 THEN [slope |-> Zero, r_squared |-> Zero]
        ELSE IF xx = 0 \/ yy = 0 THEN [slope |-> Zero, r_squared |-> Zero]
        ELSE [slope |-> Reduced(2 * xy, n * xx), r_squared |-> Reduced(xy * xy, 4 * yy)]

linear_regression_no_fit(values) == [slope |-> Zero, r_squared |-> Zero]

linear_regression(values) ==
    LET n == Len(values)
        S == SumSeq(values)
        xy == reg_xy(values, n, S, n)
        xx == reg_xx(n, n)
        yy == reg_yy(values, n, S, n)
    IN  IF n < 2 THEN [slope |-> Zero, r_squared |-> Zero]
        ELSE IF xx = 0 \/ yy = 0 THEN [slope |-> Zero, r_squared |-> Zero]
        ELSE [slope |-> Reduced(2 * xy, n * xx), r_squared |-> Reduced(xy * xy, xx * yy)]

\* the increases divided by the number of values instead of pairs
increasing_ratio_over_length(values) ==
    IF Len(values) < 2 THEN Zero
    ELSE Rat(Cardinality({i \in 2 .. Len(values) : values[i] > values[i - 1]}),
             Len(values))

increasing_ratio_non_strict(values) ==
    IF Len(values) < 2 THEN Zero
    ELSE Rat(Cardinality({i \in 2 .. Len(values) : values[i] >= values[i - 1]}),
             Len(values) - 1)

increasing_ratio(values) ==
    IF Len(values) < 2 THEN Zero
    ELSE Rat(Cardinality({i \in 2 .. Len(values) : values[i] > values[i - 1]}),
             Len(values) - 1)

NoPercent == [null |-> TRUE, val |-> Zero]

Percent(r) == [null |-> FALSE, val |-> r]

growth_percent_nonzero_start(start, growth) ==
    IF start # 0 THEN Percent(Rat(growth * 100, start)) ELSE NoPercent

\* a start that is not positive taken for 1
growth_percent_floored_start(start, growth) ==
    IF start > 0 THEN Percent(Rat(growth * 100, start)) ELSE Percent(Rat(growth * 100, 1))

\* growth_percent is None unless start > 0
growth_percent(start, growth) ==
    IF start > 0 THEN Percent(Rat(growth * 100, start)) ELSE NoPercent

metric_delta(values) ==
    LET start == values[1]
        end == values[Len(values)]
        reg == linear_regression(values)
    IN  [start |-> start,
         end |-> end,
         growth |-> end - start,
         growth_percent |-> growth_percent(start, end - start),
         increasing_ratio |-> increasing_ratio(values),
         slope |-> reg.slope,
         r_squared |-> reg.r_squared]

NullDelta ==
    [start |-> 0, end |-> 0, growth |-> 0, growth_percent |-> NoPercent,
     increasing_ratio |-> Zero, slope |-> Zero, r_squared |-> Zero]

NoDelta == [present |-> FALSE, delta |-> NullDelta]

SomeDelta(d) == [present |-> TRUE, delta |-> d]

RECURSIVE present_values(_)
present_values(opts) ==
    IF opts = <<>> THEN <<>>
    ELSE IF Head(opts).given THEN <<Head(opts).val>> \o present_values(Tail(opts))
    ELSE present_values(Tail(opts))

optional_metric_delta_from_one(opts) ==
    LET filtered == present_values(opts)
    IN  IF Len(filtered) < 1 THEN NoDelta ELSE SomeDelta(metric_delta(filtered))

optional_metric_delta(opts) ==
    LET filtered == present_values(opts)
    IN  IF Len(filtered) < 2 THEN NoDelta ELSE SomeDelta(metric_delta(filtered))

short_window_below_8(sample_count) == sample_count < 8

short_window_below_3(sample_count) == sample_count < 3

short_window_never(sample_count) == FALSE

short_window(sample_count) == sample_count < 5

very_short_window_below_2(sample_count) == sample_count < 2

very_short_window_below_5(sample_count) == sample_count < 5

very_short_window(sample_count) == sample_count < 3

Verdict(tier, score, diagnosis) == [tier |-> tier, score |-> score, diagnosis |-> diagnosis]

\* a high tier that is granted only with exclusive-memory growth
confidence_from_metrics_uss_gated(rss, uss, sample_count) ==
    LET rss_growth_pct == IF rss.growth_percent.null THEN Zero ELSE rss.growth_percent.val
        rss_trend == rss.increasing_ratio
        rss_r2 == rss.r_squared
        uss_growth_pct == IF uss.present /\ ~uss.delta.growth_percent.null
                          THEN uss.delta.growth_percent.val ELSE Zero
        uss_r2 == IF uss.present THEN uss.delta.r_squared ELSE Zero
    IN  IF very_short_window(sample_count)
        THEN IF RatGE(rss_growth_pct, Rat(3, 1)) /\ RatGE(rss_trend, Rat(1, 2))
             THEN Verdict("low", 30, "only 2 samples, early signal")
             ELSE Verdict("none", 10, "not enough samples")
        ELSE IF /\ RatGE(rss_growth_pct, Rat(15, 1))
                /\ RatGE(rss_trend, Rat(7, 10))
                /\ RatGE(rss_r2, Rat(3, 5))
                /\ ~short_window(sample_count)
                /\ uss.present
                /\ RatGE(uss_growth_pct, Rat(10, 1))
        THEN IF RatGE(uss_r2, Rat(1, 2))
             THEN Verdict("high", 95, "rss and uss trend upward with high r2")
             ELSE Verdict("high", 85, "rss grows strongly, consistent trend, r2")
        ELSE IF /\ RatGE(rss_growth_pct, Rat(15, 1))
                /\ RatGE(rss_trend, Rat(7, 10))
                /\ ~short_window(sample_count)
                /\ uss.present
                /\ RatGE(uss_growth_pct, Rat(10, 1))
        THEN Verdict("high", 80, "rss and uss grow strongly, noisy trend")
        ELSE IF RatGE(rss_growth_pct, Rat(7, 1)) /\ RatGE(rss_trend, Rat(3, 5))
        THEN IF uss.present /\ RatGE(uss_growth_pct, Rat(5, 1))
             THEN Verdict("medium", 70, "moderate rss/uss growth")
             ELSE Verdict("medium", 60, "moderate rss growth")
        ELSE IF /\ RatGE(rss_growth_pct, Rat(3, 1))
                /\ RatGE(rss_trend, Rat(11, 20))
                /\ RatGE(rss_r2, Rat(3, 10))
        THEN Verdict("low", 40, "early growth signal")
        ELSE IF /\ RatGT(rss.slope, Zero)
                /\ RatGE(rss_r2, Rat(4, 5))
                /\ RatGE(rss_growth_pct, Rat(1, 1))
        THEN Verdict("low", 35, "slow but highly linear rss growth")
        ELSE Verdict("none", 10, "no strong leak pattern")

confidence_from_metrics(rss, uss, sample_count) ==
    LET rss_growth_pct == IF rss.growth_percent.null THEN Zero ELSE rss.growth_percent.val
        rss_trend == rss.increasing_ratio
        rss_r2 == rss.r_squared
        uss_growth_pct == IF uss.present /\ ~uss.delta.growth_percent.null
                          THEN uss.delta.growth_percent.val ELSE Zero
        uss_r2 == IF uss.present THEN uss.delta.r_squared ELSE Zero
    IN  IF very_short_window(sample_count)
        THEN IF RatGE(rss_growth_pct, Rat(3, 1)) /\ RatGE(rss_trend, Rat(1, 2))
             THEN Verdict("low", 30, "only 2 samples, early signal")
             ELSE Verdict("none", 10, "not enough samples")
        ELSE IF /\ RatGE(rss_growth_pct, Rat(15, 1))
                /\ RatGE(rss_trend, Rat(7, 10))
                /\ RatGE(rss_r2, Rat(3, 5))
                /\ ~short_window(sample_count)
        THEN IF /\ uss.present
                /\ RatGE(uss_growth_pct, Rat(10, 1))
                /\ RatGE(uss_r2, Rat(1, 2))
             THEN Verdict("high", 95, "rss and uss trend upward with high r2")
             ELSE Verdict("high", 85, "rss grows strongly, consistent trend, r2")
        ELSE IF /\ RatGE(rss_growth_pct, Rat(15, 1))
                /\ RatGE(rss_trend, Rat(7, 10))
                /\ ~short_window(sample_count)
        THEN IF uss.present /\ RatGE(uss_growth_pct, Rat(10, 1))
             THEN Verdict("high", 80, "rss and uss grow strongly, noisy trend")
             ELSE Verdict("high", 75, "rss grows strongly, consistent trend")
        ELSE IF RatGE(rss_growth_pct, Rat(7, 1)) /\ RatGE(rss_trend, Rat(3, 5))
        THEN IF uss.present /\ RatGE(uss_growth_pct, Rat(5, 1))
             THEN Verdict("medium", 70, "moderate rss/uss growth")
             ELSE Verdict("medium", 60, "moderate rss growth")
        ELSE IF /\ RatGE(rss_growth_pct, Rat(3, 1))
                /\ RatGE(rss_trend, Rat(11, 20))
                /\ RatGE(rss_r2, Rat(3, 10))
        THEN Verdict("low", 40, "early growth signal")
        ELSE IF /\ RatGT(rss.slope, Zero)
                /\ RatGE(rss_r2, Rat(4, 5))
                /\ RatGE(rss_growth_pct, Rat(1, 1))
        THEN Verdict("low", 35, "slow but highly linear rss growth")
        ELSE Verdict("none", 10, "no strong leak pattern")

resource_warning_any_growth(name, d) ==
    IF d.growth > 0
    THEN <<[resource |-> name, growth |-> d.growth, trend |-> d.increasing_ratio]>>
    ELSE <<>>

resource_warning(name, d) ==
    IF d.growth > 0 /\ RatGE(d.increasing_ratio, Rat(3, 5))
    THEN <<[resource |-> name, growth |-> d.growth, trend |-> d.increasing_ratio]>>
    ELSE <<>>

check_resource_correlation(threads, open_files, connections) ==
    LET warnings == resource_warning("threads", threads)
                    \o resource_warning("open_files", open_files)
                    \o resource_warning("connections", connections)
    IN  [correlated |-> warnings # <<>>, warnings |-> warnings]

Column(ss, field) == [i \in 1 .. Len(ss) |-> ss[i][field]]

duration_unfloored(n, interval) == (n - 1) * interval

\* max(0.0, (len(samples) - 1) * interval_seconds)
duration(n, interval) ==
    IF (n - 1) * interval > 0 THEN (n - 1) * interval ELSE 0

samples_empty_never(ss) == FALSE

\* `not samples`
samples_empty(ss) == ss = <<>>

NoAnalysis == [status |-> "idle"]

Raised(error) == [status |-> "error", error |-> error]

\* analyze_samples(samples, interval_seconds): the LeakAnalysis it returns, or
\* the exception it raises.  _metric_delta indexes values[0], which raises
\* IndexError on an empty list.
analyze_samples(ss, interval) ==
    IF samples_empty(ss) THEN Raised("ValueError: samples cannot be empty")
    ELSE IF Len(ss) = 0 THEN Raised("IndexError")
    ELSE LET rss == metric_delta(Column(ss, "rss"))
             uss == optional_metric_delta(Column(ss, "uss"))
             pss == optional_metric_delta(Column(ss, "pss"))
             threads == metric_delta(Column(ss, "threads"))
             open_files == metric_delta(Column(ss, "open_files"))
             connections == metric_delta(Column(ss, "connections"))
             verdict == confidence_from_metrics(rss, uss, Len(ss))
             corr == check_resource_correlation(threads, open_files, connections)
         IN  [status |-> "ok",
              sample_count |-> Len(ss),
              duration_seconds |-> duration(Len(ss), interval),
              rss |-> rss,
              uss |-> uss,
              pss |-> pss,
              threads |-> threads,
              open_files |-> open_files,
              connections |-> connections,
              confidence |-> verdict.tier,
              score |-> verdict.score,
              diagnosis |-> verdict.diagnosis,
              resource_correlated |-> corr.correlated,
              resource_warnings |-> corr.warnings]

NoInput == [given |-> FALSE]

NoVerdict == [tier |-> "idle", score |-> 0, diagnosis |-> ""]

NoTwin == [given |-> FALSE]

(* Inputs of the batch analyzer *)

RssChoices == {0, 100, 102, 103, 200}
UssChoices == {Opt(FALSE, 0), Opt(TRUE, 80), Opt(TRUE, 160)}
IntervalChoices == {-2, 0, 1, 2}

LeakSamples ==
    [rss : RssChoices, uss : UssChoices, pss : {Opt(FALSE, 0)},
     threads : {10}, open_files : {5}, connections : {2}]

\* Resident-memory series handed to the classifier through _metric_delta,
\* and how the exclusive memory of each sample relates to its resident memory.
ClassifyRssChoices == {100, 101, 103, 115}
UssModes == {"absent", "tracks", "flat"}

RssSeries == UNION {[1 .. n -> ClassifyRssChoices] : n \in 1 .. MaxSampleCount}

uss_of(mode, rss) ==
    IF mode = "absent" THEN Opt(FALSE, 0)
    ELSE IF mode = "tracks" THEN Opt(TRUE, rss - 20)
    ELSE IF mode = "jumps" THEN Opt(TRUE, IF rss \in {101, 115} THEN 100 ELSE 80)
    ELSE Opt(TRUE, 80)

series_samples(rs, mode) ==
    [i \in 1 .. Len(rs) |->
        [rss |-> rs[i], uss |-> uss_of(mode, rs[i]), pss |-> Opt(FALSE, 0),
         threads |-> 10, open_files |-> 5, connections |-> 2]]

\* the arguments analyze_samples hands to _confidence_from_metrics
classifier_input(ss) ==
    [given |-> TRUE,
     rss |-> metric_delta(Column(ss, "rss")),
     uss |-> optional_metric_delta(Column(ss, "uss")),
     sample_count |-> Len(ss)]

(* Whole captures handed to analyze_samples *)

capture(rs, us, ts, fs, cs) ==
    [i \in 1 .. Len(rs) |->
        [rss |-> rs[i], uss |-> us[i], pss |-> Opt(FALSE, 0),
         threads |-> ts[i], open_files |-> fs[i], connections |-> cs[i]]]

constant_series(v, n) == [i \in 1 .. n |-> v]

\* first, second, first, second, ...
alternating_series(first, second, n) ==
    [i \in 1 .. n |-> IF i % 2 = 1 THEN first ELSE second]

\* base, base + step, base + 2 step, ...
arithmetic_series(base, step, n) == [i \in 1 .. n |-> base + (i - 1) * step]

memory_capture(rs) ==
    capture(rs, constant_series(Opt(FALSE, 0), Len(rs)), constant_series(10, Len(rs)),
            constant_series(5, Len(rs)), constant_series(2, Len(rs)))

AlternatingValues == {100, 103, 107, 120}
SteepSteps == {1, 2, 3, 5, 8, 15}
ArithmeticBase == 100

ShortCaptures ==
    {series_samples(rs, mode) :
        rs \in UNION {[1 .. n -> ClassifyRssChoices] : n \in 1 .. MaxShortCapture},
        mode \in UssModes}

AlternatingCaptures ==
    {memory_capture(alternating_series(pair[1], pair[2], n)) :
        pair \in {p \in AlternatingValues \X AlternatingValues : p[1] # p[2]},
        n \in 5 .. MaxAlternating}

ArithmeticCaptures ==
    {memory_capture(arithmetic_series(ArithmeticBase, step, n)) :
        step \in SteepSteps, n \in 2 .. MaxSteep}
    \cup {memory_capture(arithmetic_series(ArithmeticBase, 1, n)) : n \in 2 .. MaxSlow}

\* How a resource count (threads, open files, connections) moves over a capture
ResourceShapes == {"flat", "rising", "late_rise", "dip_recover", "falling", "sawtooth"}

resource_series(base, shape, n) ==
    [i \in 1 .. n |->
        base + (CASE shape = "flat" -> 0
                  [] shape = "rising" -> i - 1
                  [] shape = "late_rise" -> (IF i = n THEN 1 ELSE 0)
                  [] shape = "dip_recover" -> (IF i = 1 THEN n - 2 ELSE i - 2)
                  [] shape = "falling" -> n - i
                  [] shape = "sawtooth" -> (IF i % 2 = 0 THEN i + 1 ELSE i - 1))]

ResourceRssSteps == {0, 5}

ResourceCaptures ==
    {capture(arithmetic_series(ArithmeticBase, step, n),
             constant_series(Opt(FALSE, 0), n),
             resource_series(10, t, n), resource_series(5, f, n), resource_series(2, c, n)) :
        step \in ResourceRssSteps, n \in 4 .. MaxResourceLen,
        t \in ResourceShapes, f \in ResourceShapes, c \in ResourceShapes}

(* Value lists handed to _linear_regression and _metric_delta *)

TrendValues == {-1, 0, 1, 2, 3}
TrendBases == {0, 100}

ValueLists ==
    UNION {[1 .. n -> TrendValues] : n \in 0 .. MaxValues}
    \cup {arithmetic_series(base, step, n) :
              base \in TrendBases, step \in SteepSteps, n \in 2 .. MaxSteep}
    \cup {constant_series(v, n) : v \in TrendValues, n \in 1 .. MaxSlow}

\* Captures whose exclusive and proportional memory are present in some
\* samples only
optional_capture(rs, us, ps) ==
    [i \in 1 .. Len(rs) |->
        [rss |-> rs[i], uss |-> us[i], pss |-> ps[i],
         threads |-> 10, open_files |-> 5, connections |-> 2]]

OptionalUssChoices == {Opt(FALSE, 0), Opt(TRUE, 80), Opt(TRUE, 90)}
OptionalPssChoices == {Opt(FALSE, 0), Opt(TRUE, 50)}
OptionalRssSteps == {0, 5}

OptionalCaptures ==
    UNION {{optional_capture(arithmetic_series(ArithmeticBase, step, n), us, ps) :
               step \in OptionalRssSteps,
               us \in [1 .. n -> OptionalUssChoices],
               ps \in [1 .. n -> OptionalPssChoices]} :
           n \in 1 .. MaxOptionalLen}

-----------------------------------------------------------------------------
(* Specifications *)

TrendIdle ==
    /\ series = <<>>
    /\ regression = NoAnalysis
    /\ delta = NoAnalysis
    /\ ratio = NoAnalysis

BatchIdle ==
    /\ cin = NoInput
    /\ cout = NoVerdict
    /\ twin = NoTwin
    /\ samples = <<>>
    /\ interval_seconds = 0
    /\ analysis = NoAnalysis
    /\ TrendIdle

DetectorInit ==
    /\ ctor = "none"
    /\ window_size = 0
    /\ growth_threshold = 0
    /\ cooldown_samples = 0
    /\ history = <<>>
    /\ samples_since_alert = 0
    /\ requested = [via |-> "none", window |-> Opt(FALSE, 0), threshold |-> Opt(FALSE, 0)]
    /\ ingested = <<>>
    /\ last = NoResult
    /\ log = <<>>
    /\ rules = <<>>
    /\ checked = NotChecked
    /\ alert_marks = NoAlertYet

Init == DetectorInit /\ BatchIdle

Construct ==
    \E w \in WindowChoices, t \in ThresholdChoices, c \in CooldownChoices :
        MemoryLeakDetector_init(w, t, c)

Enable ==
    \E w \in OptArgs(WindowChoices), t \in OptArgs(ThresholdChoices) :
        enable_memory_leak_detection(w, t)

AddSample == \E v \in SampleValues : add_sample(v)

CheckLeak == check_leak

Next == Construct \/ Enable \/ AddSample \/ CheckLeak

Spec == Init /\ [][Next]_vars

\* A caller that owns the detector through an AlertChecker and feeds it one
\* snapshot after the other.
CheckSnapshot == \E snapshot \in Snapshots : check(snapshot)

NextFeed == Construct \/ CheckSnapshot

SpecFeed == Init /\ [][NextFeed]_vars

\* A checker without leak detection: rules are added, snapshots are checked.
AddRule == \E rule \in Rules : add_rule(rule)

CheckRules == \E snapshot \in RuleSnapshots : check(snapshot)

NextRules == AddRule \/ CheckRules

SpecRules == Init /\ [][NextRules]_vars

\* A checker that is given rules and a detector, in any order, and checks
\* snapshots that may or may not carry a memory reading.
Attach ==
    \E w \in WatchWindows, c \in WatchCooldowns : MemoryLeakDetector_init(w, WatchThreshold, c)

EnableWatch ==
    \E w \in {Opt(TRUE, 2), Opt(FALSE, 0)} :
        enable_memory_leak_detection(w, Opt(TRUE, WatchThreshold))

WatchRule == \E rule \in WatchRules : add_rule(rule)

WatchCheck ==
    /\ Len(log) < MaxWatch
    /\ \E snapshot \in WatchSnapshots : check(snapshot)

NextWatch == Attach \/ EnableWatch \/ WatchRule \/ WatchCheck

SpecWatch == Init /\ [][NextWatch]_vars

\* _confidence_from_metrics applied to one input.
InitClassify ==
    /\ DetectorInit
    /\ \E rs \in RssSeries, mode \in UssModes :
          cin = classifier_input(series_samples(rs, mode))
    /\ cout = NoVerdict
    /\ twin = NoTwin
    /\ samples = <<>>
    /\ interval_seconds = 0
    /\ analysis = NoAnalysis
    /\ TrendIdle

Classify ==
    /\ cout = NoVerdict
    /\ cout' = confidence_from_metrics(cin.rss, cin.uss, cin.sample_count)
    /\ UNCHANGED <<cin, samples, interval_seconds, analysis, twin>>
    /\ UNCHANGED trend_vars
    /\ UNCHANGED detector_vars

NextClassify == Classify

SpecClassify == InitClassify /\ [][NextClassify]_vars

\* _confidence_from_metrics applied to two inputs that have the same
\* resident-memory delta and sample count and may differ in the
\* exclusive-memory delta.
TwinModes == UssModes \cup {"jumps"}

TwinSeries == UNION {[1 .. n -> ClassifyRssChoices] : n \in 1 .. MaxTwinCount}

InitTwin ==
    /\ DetectorInit
    /\ \E rs \in TwinSeries, mode \in UssModes, other \in TwinModes :
          /\ cin = classifier_input(series_samples(rs, mode))
          /\ twin = [given |-> TRUE,
                     uss |-> classifier_input(series_samples(rs, other)).uss,
                     out |-> NoVerdict]
    /\ cout = NoVerdict
    /\ samples = <<>>
    /\ interval_seconds = 0
    /\ analysis = NoAnalysis
    /\ TrendIdle

ClassifyTwin ==
    /\ cout = NoVerdict
    /\ cout' = confidence_from_metrics(cin.rss, cin.uss, cin.sample_count)
    /\ twin' = [twin EXCEPT !.out = confidence_from_metrics(cin.rss, twin.uss, cin.sample_count)]
    /\ UNCHANGED <<cin, samples, interval_seconds, analysis>>
    /\ UNCHANGED trend_vars
    /\ UNCHANGED detector_vars

NextTwin == ClassifyTwin

SpecTwin == InitTwin /\ [][NextTwin]_vars

\* A caller of the batch analyzer: the sample list is built one sample at a
\* time, then analyze_samples is called once on it.
collect_sample(s) ==
    /\ analysis = NoAnalysis
    /\ Len(samples) < MaxSamples
    /\ samples' = Append(samples, s)
    /\ UNCHANGED <<cin, cout, interval_seconds, analysis, twin>>
    /\ UNCHANGED trend_vars
    /\ UNCHANGED detector_vars

analyze(interval) ==
    /\ analysis = NoAnalysis
    /\ interval_seconds' = interval
    /\ analysis' = analyze_samples(samples, interval)
    /\ UNCHANGED <<cin, cout, samples, twin>>
    /\ UNCHANGED trend_vars
    /\ UNCHANGED detector_vars

Collect == \E s \in LeakSamples : collect_sample(s)

Analyze == \E interval \in IntervalChoices : analyze(interval)

NextAnalyze == Collect \/ Analyze

SpecAnalyze == Init /\ [][NextAnalyze]_vars

\* _linear_regression, _metric_delta and _increasing_ratio applied to one
\* value list.
InitTrend ==
    /\ DetectorInit
    /\ cin = NoInput
    /\ cout = NoVerdict
    /\ twin = NoTwin
    /\ samples = <<>>
    /\ interval_seconds = 0
    /\ analysis = NoAnalysis
    /\ series \in ValueLists
    /\ regression = NoAnalysis
    /\ delta = NoAnalysis
    /\ ratio = NoAnalysis

Regress ==
    /\ regression = NoAnalysis
    /\ regression' = [status |-> "ok",
                      slope |-> linear_regression(series).slope,
                      r_squared |-> linear_regression(series).r_squared]
    /\ UNCHANGED <<cin, cout, samples, interval_seconds, analysis, series, delta, ratio, twin>>
    /\ UNCHANGED detector_vars

\* values[0] raises IndexError on an empty list
Measure ==
    /\ delta = NoAnalysis
    /\ delta' = IF Len(series) = 0 THEN Raised("IndexError")
                 ELSE [status |-> "ok", result |-> metric_delta(series)]
    /\ UNCHANGED <<cin, cout, samples, interval_seconds, analysis, series, regression, ratio, twin>>
    /\ UNCHANGED detector_vars

Ratio ==
    /\ ratio = NoAnalysis
    /\ ratio' = [status |-> "ok", value |-> increasing_ratio(series)]
    /\ UNCHANGED <<cin, cout, samples, interval_seconds, analysis, series, regression, delta, twin>>
    /\ UNCHANGED detector_vars

NextTrend == Regress \/ Measure \/ Ratio

SpecTrend == InitTrend /\ [][NextTrend]_vars

\* sample_from_process_detail(detail): a missing rss or count reads as 0, a
\* missing uss or pss as None
sample_from_process_detail(detail) ==
    [rss |-> IF detail.rss.given THEN detail.rss.val ELSE 0,
     uss |-> detail.uss,
     pss |-> detail.pss,
     threads |-> IF detail.threads.given THEN detail.threads.val ELSE 0,
     open_files |-> IF detail.open_files.given THEN detail.open_files.val ELSE 0,
     connections |-> IF detail.connections.given THEN detail.connections.val ELSE 0]

process_detail(rss, uss) ==
    [rss |-> rss, uss |-> uss, pss |-> Opt(FALSE, 0),
     threads |-> Opt(TRUE, 10), open_files |-> Opt(TRUE, 5), connections |-> Opt(TRUE, 2)]

\* Captures whose first process detail has no resident memory, or one that
\* is not positive
ZeroStartFirst == {Opt(FALSE, 0), Opt(TRUE, 0), Opt(TRUE, -1)}
ZeroStartRest == {Opt(FALSE, 0), Opt(TRUE, 10), Opt(TRUE, 20)}
ZeroStartUss == {"absent", "grows"}
ZeroStartStep == 10

zero_start_uss(mode, i) == IF mode = "absent" THEN Opt(FALSE, 0) ELSE Opt(TRUE, 80 + 10 * i)

zero_start_capture(rs, mode) ==
    [i \in 1 .. Len(rs) |-> sample_from_process_detail(process_detail(rs[i], zero_start_uss(mode, i)))]

ZeroStartCaptures ==
    {zero_start_capture(<<first>> \o rest, mode) :
        first \in ZeroStartFirst,
        rest \in UNION {[1 .. n -> ZeroStartRest] : n \in 0 .. MaxZeroStart - 1},
        mode \in ZeroStartUss}
    \cup {zero_start_capture(
              [i \in 1 .. n |-> IF i = 1 THEN Opt(FALSE, 0) ELSE Opt(TRUE, (i - 1) * ZeroStartStep)],
              mode) :
            n \in 2 .. MaxSteep, mode \in ZeroStartUss}

\* analyze_samples applied to one whole capture.
Captures ==
    ShortCaptures \cup AlternatingCaptures \cup ArithmeticCaptures \cup ResourceCaptures
        \cup OptionalCaptures \cup ZeroStartCaptures

InitCapture ==
    /\ DetectorInit
    /\ cin = NoInput
    /\ cout = NoVerdict
    /\ twin = NoTwin
    /\ samples \in Captures
    /\ interval_seconds = 0
    /\ analysis = NoAnalysis
    /\ TrendIdle

NextCapture == Analyze

SpecCapture == InitCapture /\ [][NextCapture]_vars

-----------------------------------------------------------------------------
(* The stated behaviour of the streaming detector, written from the          *)
(* specification's words and independent of the operators above.             *)

StatedMin(a, b) == IF a < b THEN a ELSE b

StatedLastN(s, n) == SubSeq(s, Len(s) - n + 1, Len(s))

\* (mean of the last w - floor(w/2) values) - (mean of the first floor(w/2) values)
StatedGrowth(buf, w) ==
    LET h == w \div 2
        firstSum == SumSeq(SubSeq(buf, 1, h))
        lastSum == SumSeq(SubSeq(buf, h + 1, w))
    IN  Rat(lastSum * h - firstSum * (w - h), h * (w - h))

\* the fraction of adjacent pairs whose later value is strictly greater is >= 0.6
StatedTrendOk(buf) ==
    10 * Cardinality({i \in 1 .. Len(buf) - 1 : buf[i + 1] > buf[i]}) >= 6 * (Len(buf) - 1)

StatedGate(buf, w, t) ==
    /\ w \div 2 > 0
    /\ Len(buf) = w
    /\ StatedGrowth(buf, w).n >= t * StatedGrowth(buf, w).d
    /\ StatedTrendOk(buf)

ConstantGrowthSeries(s) ==
    \A i \in 1 .. Len(s) - 1 : s[i + 1] - s[i] = s[2] - s[1]

EveryFullWindowPassesGate(s, w, t) ==
    \A j \in 1 .. Len(s) - w + 1 : StatedGate(SubSeq(s, j, j + w - 1), w, t)

\* C1: a caller feeding a constant-growth series that passes the gate, one
\* add_sample and one check_leak per value, sees no alert after samples
\* 1..W-1, an alert after sample W, no alert after each of the next C samples
\* and an alert again after sample W+C+1.
C1_AlertThenCSuppressedThenAlert ==
    ( /\ ctor = "ok"
      /\ window_size >= 2
      /\ cooldown_samples >= 0
      /\ Len(log) = Len(ingested)
      /\ ConstantGrowthSeries(ingested)
      /\ EveryFullWindowPassesGate(ingested, window_size, growth_threshold) )
    => \A k \in 1 .. Len(log) :
          k <= window_size + cooldown_samples + 1
          => log[k] = (IF k \in {window_size, window_size + cooldown_samples + 1}
                       THEN "alert" ELSE "none")

\* C2: check_leak returns an alert exactly when the buffer holds window_size
\* samples, the cooldown counter is 0, the half-average growth is at least
\* growth_threshold and the trend ratio is at least 0.6; the alert's value is
\* that growth.  (A window below 2 has no first half, hence no growth: the
\* call raises and returns no alert.)
C2_AlertIffGate ==
    [][ last'.op = "check_leak"
        => /\ (last'.kind = "alert")
              <=> ( /\ Len(history) = window_size
                    /\ samples_since_alert = 0
                    /\ StatedGate(history, window_size, growth_threshold) )
           /\ last'.kind = "alert"
              => RatEQ(last'.value, StatedGrowth(history, window_size)) ]_vars

C2_Witness ==
    /\ last.op = "check_leak"
    /\ last.kind = "alert"
    /\ window_size = 3
    /\ RatEQ(last.value, Rat(3, 2))

\* C4: the buffer holds exactly the most recent min(k, N) ingested values in
\* arrival order, k being the number of add_sample calls so far.
C4_BufferIsLastN ==
    ctor = "ok"
    => /\ Len(history) <= window_size
       /\ history = StatedLastN(ingested, StatedMin(Len(ingested), window_size))

C4_Witness ==
    /\ ctor = "ok"
    /\ window_size >= 2
    /\ Len(ingested) > window_size
    /\ history[1] # ingested[1]
    /\ last.op = "check_leak"

\* C5: with cooldown_samples C >= 0 the cooldown counter stays in 0..C, each
\* add_sample lowers it by exactly 1 when positive and leaves it at 0
\* otherwise, and check_leak returns no-alert whenever it is positive.
C5_CooldownCounter ==
    [][ /\ (ctor' = "ok" /\ cooldown_samples' >= 0)
           => samples_since_alert' \in 0 .. cooldown_samples'
        /\ last'.op = "add_sample"
           => samples_since_alert' =
                 (IF samples_since_alert > 0 THEN samples_since_alert - 1 ELSE 0)
        /\ (last'.op = "check_leak" /\ samples_since_alert > 0)
           => last'.kind = "none" ]_vars

C5_Witness ==
    /\ last.op = "check_leak"
    /\ last.kind = "none"
    /\ samples_since_alert > 0
    /\ StatedGate(history, window_size, growth_threshold)

\* C6: while fewer than window_size samples have been ingested, every
\* check_leak returns no-alert, whatever the values and the threshold.
C6_NoAlertBeforeFull ==
    (last.op = "check_leak" /\ Len(ingested) < window_size) => last.kind = "none"

C6_Witness ==
    /\ last.op = "check_leak"
    /\ window_size = 3
    /\ ingested = <<0, 2>>
    /\ growth_threshold <= 0

\* C7: a non-positive window_size or growth_threshold makes construction
\* fail; no detector is built from one, and no given value is replaced by a
\* default.
C7_NonPositiveConfigRejected ==
    ctor = "ok"
    => /\ requested.window.given
          => (requested.window.val > 0 /\ window_size = requested.window.val)
       /\ requested.threshold.given
          => (requested.threshold.val > 0 /\ growth_threshold = requested.threshold.val)

\* the nodes reached from the snapshot after the first k keys of the path:
\* one node, or none when a key is missing or a non-mapping is reached
RECURSIVE StatedNodesAt(_, _, _)
StatedNodesAt(snapshot, path, k) ==
    IF k = 0 THEN {snapshot}
    ELSE {m.items[path[k]] :
             m \in {x \in StatedNodesAt(snapshot, path, k - 1) :
                       x.kind = "dict" /\ path[k] \in DOMAIN x.items}}

\* the numeric value the path resolves to, if any (a Python bool is an int)
StatedNumeric(snapshot, path) ==
    {m.val : m \in {x \in StatedNodesAt(snapshot, path, Len(path)) :
                       x.kind \in {"num", "bool"}}}

StatedHolds(operator, v, threshold) ==
    CASE operator = "gt" -> v > threshold
      [] operator = "gte" -> v >= threshold
      [] operator = "lt" -> v < threshold
      [] operator = "lte" -> v <= threshold
      [] operator = "eq" -> v = threshold
      [] OTHER -> FALSE

StatedTriggers(rule, snapshot) ==
    \E v \in StatedNumeric(snapshot, rule.metric) : StatedHolds(rule.operator, v, rule.threshold)

StatedTriggered(rs, snapshot) == {i \in 1 .. Len(rs) : StatedTriggers(rs[i], snapshot)}

\* C20: check(snapshot) returns, in rule order, exactly one alert for each
\* rule whose dotted path resolves through nested mappings to a numeric value
\* v that compares to the threshold as the operator (gt, gte, lt, lte, eq)
\* says; a rule whose path is missing or non-numeric, or whose operator is
\* none of the five, gives no alert; each alert carries its rule and v.
C20_RuleAlerts ==
    checked.status = "ok"
    => LET hit == StatedTriggered(checked.rules, checked.snapshot)
           rule_count == Len(checked.alerts) - (IF last.kind = "alert" THEN 1 ELSE 0)
       IN  /\ rule_count = Cardinality(hit)
           /\ \A i \in hit :
                 LET alert == checked.alerts[Cardinality({j \in hit : j <= i})]
                 IN  /\ alert.rule = checked.rules[i]
                     /\ \E v \in StatedNumeric(checked.snapshot, checked.rules[i].metric) :
                           alert.value.n = v * alert.value.d

\* of two rules on a reading of 3 against threshold 2, the first (lt) stays
\* silent and the second (gt) alerts
C20_Witness ==
    /\ checked.status = "ok"
    /\ Len(checked.rules) = 2
    /\ checked.rules[1].operator = "lt"
    /\ checked.rules[2].operator = "gt"
    /\ checked.rules[1].metric = <<"cpu", "percent">>
    /\ checked.rules[2].metric = <<"cpu", "percent">>
    /\ checked.snapshot = cpu_snapshot(Num(3))
    /\ Len(checked.alerts) = 1
    /\ checked.alerts[1].rule = checked.rules[2]
    /\ checked.alerts[1].value = RatOfInt(3)

\* C23: between two alerts of the same detector at least cooldown_samples
\* add_sample calls occur; with cooldown_samples >= 1, check_leak called
\* again without an add_sample in between gives no second alert.
C23_CooldownBetweenAlerts ==
    (ctor = "ok" /\ alert_marks.gap >= 0)
    => /\ alert_marks.gap >= cooldown_samples
       /\ cooldown_samples >= 1 => alert_marks.gap # 0

\* a second alert, two samples after the first, under a cooldown of 2
C23_Witness ==
    /\ ctor = "ok"
    /\ cooldown_samples = 2
    /\ alert_marks.gap = 2
    /\ last.op = "check_leak"
    /\ last.kind = "alert"

StatedAccumulating(h, w, cd) == Len(h) < w /\ cd = 0

StatedReady(h, w, cd) == Len(h) >= w /\ cd = 0

StatedCoolingDown(h, w, cd) == Len(h) >= w /\ cd > 0

StatedInOneState(h, w, cd) ==
    \/ StatedAccumulating(h, w, cd)
    \/ StatedReady(h, w, cd)
    \/ StatedCoolingDown(h, w, cd)

\* C19: the detector is always accumulating (buffer not full, cooldown 0),
\* ready (buffer full, cooldown 0) or cooling down (buffer full, cooldown
\* > 0): the cooldown is never positive while the buffer is not full, a full
\* buffer stays full, ready becomes cooling-down only through an alerting
\* check_leak, cooling-down becomes ready only through an add_sample that
\* brings the counter to 0, and in every state a call is enabled.
C19_ThreeStates ==
    /\ [](ctor = "ok"
           => /\ StatedInOneState(history, window_size, samples_since_alert)
              /\ ENABLED CheckLeak
              /\ Len(ingested) < MaxIngest => ENABLED AddSample)
    /\ [][ (ctor = "ok" /\ ctor' = "ok")
            => /\ Len(history) >= window_size => Len(history') >= window_size'
               /\ ( /\ StatedReady(history, window_size, samples_since_alert)
                     /\ StatedCoolingDown(history', window_size', samples_since_alert') )
                  => (last'.op = "check_leak" /\ last'.kind = "alert")
               /\ ( /\ StatedCoolingDown(history, window_size, samples_since_alert)
                     /\ StatedReady(history', window_size', samples_since_alert') )
                  => (last'.op = "add_sample" /\ samples_since_alert = 1)
               /\ StatedAccumulating(history, window_size, samples_since_alert)
                  => ~StatedCoolingDown(history', window_size', samples_since_alert') ]_vars

\* cooling down, one add_sample after the alert
C19_Witness ==
    /\ ctor = "ok"
    /\ cooldown_samples = 2
    /\ samples_since_alert = 1
    /\ last.op = "add_sample"
    /\ Len(history) = window_size
    /\ Len(ingested) > window_size

-----------------------------------------------------------------------------
(* The stated behaviour of the batch analyzer *)

StatedPct(gp) == IF gp.null THEN Zero ELSE gp.val

StatedStrongGrowth(rss) ==
    /\ RatGE(StatedPct(rss.growth_percent), Rat(15, 1))
    /\ RatGE(rss.increasing_ratio, Rat(7, 10))

StatedUssGrowthAtLeast(uss, p) ==
    uss.present /\ RatGE(StatedPct(uss.delta.growth_percent), Rat(p, 1))

StatedHighScore(rss, uss) ==
    IF RatGE(rss.r_squared, Rat(6, 10))
    THEN IF StatedUssGrowthAtLeast(uss, 10) /\ RatGE(uss.delta.r_squared, Rat(5, 10))
         THEN 95 ELSE 85
    ELSE IF StatedUssGrowthAtLeast(uss, 10) THEN 80 ELSE 75

Analyzed == analysis.status # "idle"

\* C8 as stated: a non-empty sample list with an interval <= 0 makes
\* analyze_samples fail and return no LeakAnalysis.
C8_NonPositiveIntervalRejected ==
    (Analyzed /\ samples # <<>> /\ interval_seconds <= 0) => analysis.status = "error"

\* C8 as amended: a non-empty sample list with an interval <= 0 raises no
\* error; the LeakAnalysis is returned with its duration floored at 0.
C8_NonPositiveIntervalFloored ==
    (Analyzed /\ samples # <<>> /\ interval_seconds <= 0)
    => /\ analysis.status = "ok"
       /\ analysis.sample_count = Len(samples)
       /\ analysis.duration_seconds = 0

C8_Witness ==
    /\ analysis.status = "ok"
    /\ Len(samples) = 3
    /\ interval_seconds = -2

\* C9: an empty sample list always raises 'samples cannot be empty', for
\* every interval, with no delta computed and no LeakAnalysis returned.
C9_EmptyRaises ==
    (Analyzed /\ samples = <<>>)
    => analysis = [status |-> "error", error |-> "ValueError: samples cannot be empty"]

C9_Witness ==
    /\ analysis.status = "error"
    /\ samples = <<>>
    /\ interval_seconds = -2

\* C10: fewer than 3 samples give 'low', 30 when resident growth% >= 3 and
\* trend >= 0.5 and 'none', 10 otherwise; two samples never exceed 'low' and
\* a single sample gives 'none', 10 and duration 0.
C10_ShortWindow ==
    (analysis.status = "ok" /\ Len(samples) < 3)
    => LET early == /\ RatGE(StatedPct(analysis.rss.growth_percent), Rat(3, 1))
                    /\ RatGE(analysis.rss.increasing_ratio, Rat(5, 10))
       IN  /\ early => (analysis.confidence = "low" /\ analysis.score = 30)
           /\ ~early => (analysis.confidence = "none" /\ analysis.score = 10)
           /\ analysis.confidence \in {"none", "low"}
           /\ Len(samples) = 2
              => (early <=> /\ samples[1].rss > 0
                            /\ (samples[2].rss - samples[1].rss) * 100 >= 3 * samples[1].rss)
           /\ Len(samples) = 1
              => /\ analysis.confidence = "none"
                 /\ analysis.score = 10
                 /\ analysis.duration_seconds = 0

C10_Witness ==
    /\ analysis.status = "ok"
    /\ Len(samples) = 2
    /\ samples[1].rss = 100 /\ samples[2].rss = 200
    /\ samples[1].uss = Opt(TRUE, 80) /\ samples[2].uss = Opt(TRUE, 160)
    /\ analysis.confidence = "low"
    /\ analysis.score = 30

\* the series reverses direction at every step, between a lower and a higher value
StatedAlternates(s) ==
    /\ Len(s) >= 2
    /\ s[1] # s[2]
    /\ \A i \in 3 .. Len(s) : s[i] = s[i - 2]

StatedRss(ss) == [i \in 1 .. Len(ss) |-> ss[i].rss]

\* C11: a resident-memory series of 5 or more samples that strictly
\* alternates between a lower and a higher value gets confidence 'none'.
C11_OscillationIsNone ==
    (analysis.status = "ok" /\ Len(samples) >= 5 /\ StatedAlternates(StatedRss(samples)))
    => analysis.confidence = "none"

StatedAtLeast(x, num, den) == x.n * den >= num * x.d

\* the verdict below the 'high' tier, decided in the stated order
StatedLowerVerdict(rss, uss) ==
    LET pct == StatedPct(rss.growth_percent)
    IN  IF StatedAtLeast(pct, 7, 1) /\ StatedAtLeast(rss.increasing_ratio, 6, 10)
        THEN <<"medium", IF StatedUssGrowthAtLeast(uss, 5) THEN 70 ELSE 60>>
        ELSE IF /\ StatedAtLeast(pct, 3, 1)
                /\ StatedAtLeast(rss.increasing_ratio, 55, 100)
                /\ StatedAtLeast(rss.r_squared, 3, 10)
        THEN <<"low", 40>>
        ELSE IF /\ rss.slope.n * rss.slope.d > 0
                /\ StatedAtLeast(rss.r_squared, 8, 10)
                /\ StatedAtLeast(pct, 1, 1)
        THEN <<"low", 35>>
        ELSE <<"none", 10>>

StatedIncreases(s) == Cardinality({i \in 2 .. Len(s) : s[i] > s[i - 1]})

\* growth from the first to the last value is at least 15% of the first, and
\* at least 70% of the steps go up
StatedSeriesStrong(s) ==
    /\ s[1] > 0
    /\ (s[Len(s)] - s[1]) * 100 >= 15 * s[1]
    /\ 10 * StatedIncreases(s) >= 7 * (Len(s) - 1)

StatedArithmetic(s) ==
    /\ Len(s) >= 2
    /\ s[2] > s[1]
    /\ \A i \in 2 .. Len(s) : s[i] - s[i - 1] = s[2] - s[1]

\* C14: a strictly increasing arithmetic resident-memory series of at least
\* 3 samples whose total growth is at least 3% of the first value (the
\* 20-sample series growing by about 20% included) gets a confidence in
\* {low, medium, high}, a score above 10 and an rss r_squared above 0.9.
C14_LinearLeakDetected ==
    ( /\ analysis.status = "ok"
      /\ Len(samples) >= 3
      /\ StatedArithmetic(StatedRss(samples))
      /\ samples[1].rss > 0
      /\ (samples[Len(samples)].rss - samples[1].rss) * 100 >= 3 * samples[1].rss )
    => /\ analysis.confidence \in {"low", "medium", "high"}
       /\ analysis.score > 10
       /\ 10 * analysis.rss.r_squared.n > 9 * analysis.rss.r_squared.d

C14_Witness ==
    /\ analysis.status = "ok"
    /\ Len(samples) = 20
    /\ samples[1].rss = 100
    /\ samples[20].rss = 119
    /\ StatedArithmetic(StatedRss(samples))
    /\ analysis.score > 10

StatedColumn(ss, f) == [i \in 1 .. Len(ss) |-> ss[i][f]]

\* the count grew from the first to the last sample and at least 60% of its
\* steps went up
StatedResourceGrows(s) ==
    /\ Len(s) >= 2
    /\ s[Len(s)] - s[1] > 0
    /\ 10 * StatedIncreases(s) >= 6 * (Len(s) - 1)

StatedWarned(ss) ==
    (IF StatedResourceGrows(StatedColumn(ss, "threads")) THEN <<"threads">> ELSE <<>>)
    \o (IF StatedResourceGrows(StatedColumn(ss, "open_files")) THEN <<"open_files">> ELSE <<>>)
    \o (IF StatedResourceGrows(StatedColumn(ss, "connections")) THEN <<"connections">> ELSE <<>>)

\* C15: the resource-correlation result has exactly one warning for each of
\* thread, open-file and connection count whose delta has growth > 0 and
\* increasing_ratio >= 0.6, in that order, whatever the other two and the
\* memory deltas are; correlated is true iff the warning list is non-empty;
\* strictly increasing threads with flat files and connections give
\* correlated = true with the thread warning only.
C15_ResourceWarnings ==
    analysis.status = "ok"
    => /\ [i \in 1 .. Len(analysis.resource_warnings) |-> analysis.resource_warnings[i].resource]
            = StatedWarned(samples)
       /\ analysis.resource_correlated <=> (analysis.resource_warnings # <<>>)

C15_Witness ==
    /\ analysis.status = "ok"
    /\ StatedColumn(samples, "threads") = <<10, 11, 12, 13, 14>>
    /\ StatedColumn(samples, "open_files") = <<5, 5, 5, 5, 5>>
    /\ StatedColumn(samples, "connections") = <<2, 2, 2, 2, 2>>
    /\ analysis.resource_correlated
    /\ Len(analysis.resource_warnings) = 1
    /\ analysis.resource_warnings[1].resource = "threads"

\* the values of the samples that carry the metric, in their original order
StatedPresent(ss, f) ==
    LET carried == SelectSeq(ss, LAMBDA x : x[f].given)
    IN  [i \in 1 .. Len(carried) |-> carried[i][f].val]

StatedDeltaOver(d, p) ==
    /\ d.start = p[1]
    /\ d.end = p[Len(p)]
    /\ d.growth = p[Len(p)] - p[1]
    /\ d.increasing_ratio.n * (Len(p) - 1) = StatedIncreases(p) * d.increasing_ratio.d

StatedOptionalDelta(result, p) ==
    IF Len(p) < 2 THEN ~result.present
    ELSE result.present /\ StatedDeltaOver(result.delta, p)

\* C21: the delta of an optional metric (exclusive or proportional memory) is
\* computed over the samples that carry the value, in their order; with
\* fewer than 2 such samples it is null, without an error; an absent
\* exclusive-memory delta counts as growth 0 and R2 0 in the classifier (the
\* scores that need exclusive growth, 95, 80 and 70, are not given).
C21_OptionalDelta ==
    (Analyzed /\ samples # <<>>)
    => /\ analysis.status = "ok"
       /\ StatedOptionalDelta(analysis.uss, StatedPresent(samples, "uss"))
       /\ StatedOptionalDelta(analysis.pss, StatedPresent(samples, "pss"))
       /\ ~analysis.uss.present => analysis.score \notin {95, 80, 70}

\* exclusive memory carried by the second and fourth sample only
C21_Witness ==
    /\ analysis.status = "ok"
    /\ Len(samples) = 4
    /\ StatedColumn(samples, "uss") = <<Opt(FALSE, 0), Opt(TRUE, 80), Opt(FALSE, 0), Opt(TRUE, 90)>>
    /\ StatedPresent(samples, "pss") = <<50>>
    /\ analysis.uss.present
    /\ analysis.uss.delta.growth = 10
    /\ ~analysis.pss.present
    /\ analysis.score = 70

-----------------------------------------------------------------------------
(* The stated behaviour of the trend estimator and the metric delta *)

\* C16: for every non-empty value list the metric delta has start = first
\* value, end = last value, growth = end - start; growth_percent is null
\* exactly when start <= 0 and equals (end - start) / start * 100 otherwise.
C16_DeltaEndpoints ==
    (delta.status = "ok" /\ Len(series) >= 1)
    => /\ delta.result.start = series[1]
       /\ delta.result.end = series[Len(series)]
       /\ delta.result.growth = series[Len(series)] - series[1]
       /\ delta.result.growth_percent.null <=> series[1] <= 0
       /\ series[1] > 0
          => delta.result.growth_percent.val.n * series[1]
                = (series[Len(series)] - series[1]) * 100 * delta.result.growth_percent.val.d

C16_Witness ==
    /\ delta.status = "ok"
    /\ series = <<2, 0, 3>>
    /\ ~delta.result.growth_percent.null
    /\ delta.result.growth_percent.val.n = 50 * delta.result.growth_percent.val.d


StatedIsZero(x) == x.n = 0

StatedConstant(s) == \A i \in 1 .. Len(s) : s[i] = s[1]

\* C17: degenerate lists never raise and give zeros: for a list shorter than
\* 2 the trend estimator returns slope 0.0 and r_squared 0.0; for a constant
\* list of any length the metric delta has growth 0, increasing_ratio 0.0,
\* slope 0.0 and r_squared 0.0.
C17_DegenerateGivesZeros ==
    /\ (regression # NoAnalysis /\ Len(series) < 2)
       => /\ regression.status = "ok"
          /\ StatedIsZero(regression.slope)
          /\ StatedIsZero(regression.r_squared)
    /\ (delta # NoAnalysis /\ Len(series) >= 1 /\ StatedConstant(series))
       => /\ delta.status = "ok"
          /\ delta.result.growth = 0
          /\ StatedIsZero(delta.result.increasing_ratio)
          /\ StatedIsZero(delta.result.slope)
          /\ StatedIsZero(delta.result.r_squared)

C17_Witness ==
    /\ regression.status = "ok"
    /\ delta.status = "ok"
    /\ series = <<3, 3, 3, 3>>
    /\ delta.result.start = 3

StatedLine(s) == \A i \in 2 .. Len(s) : s[i] - s[i - 1] = s[2] - s[1]

StatedStrictlyIncreasing(s) == \A i \in 2 .. Len(s) : s[i] > s[i - 1]

\* C25: the trend ratio of n values is 0.0 when n < 2 and otherwise the
\* number of positions whose value is strictly greater than the one before,
\* over n - 1; equal neighbours do not count, so the ratio lies in [0, 1] and
\* is 1 only for a strictly increasing list.
C25_TrendRatio ==
    ratio # NoAnalysis
    => /\ ratio.status = "ok"
       /\ Len(series) < 2 => ratio.value.n = 0
       /\ Len(series) >= 2
          => /\ ratio.value.d > 0
             /\ ratio.value.n * (Len(series) - 1) = StatedIncreases(series) * ratio.value.d
             /\ ratio.value.n >= 0
             /\ ratio.value.n <= ratio.value.d
             /\ ratio.value.n = ratio.value.d <=> StatedStrictlyIncreasing(series)
       /\ (delta # NoAnalysis /\ Len(series) >= 1)
          => RatEQ(delta.result.increasing_ratio, ratio.value)

C25_Witness ==
    /\ ratio.status = "ok"
    /\ series = <<1, 2, 2, 3>>
    /\ ratio.value.n * 3 = 2 * ratio.value.d

-----------------------------------------------------------------------------
(* The stated frame of the detector's two operations *)

\* C26: check_leak never changes the sample buffer; it leaves the cooldown
\* counter unchanged when it returns no alert and sets it to
\* cooldown_samples when it returns an alert; add_sample never raises the
\* cooldown counter and never produces an alert.
C26_DetectorFrame ==
    [][/\ last'.op = "check_leak"
          => /\ history' = history
             /\ last'.kind = "none" => samples_since_alert' = samples_since_alert
             /\ last'.kind = "alert" => samples_since_alert' = cooldown_samples
       /\ last'.op = "add_sample"
          => /\ samples_since_alert' <= samples_since_alert
             /\ last'.kind = "none"]_vars

C26_Witness ==
    /\ last.op = "check_leak"
    /\ last.kind = "alert"
    /\ cooldown_samples = 2
    /\ samples_since_alert = 2
    /\ Len(history) = 3

\* C27: for every positive window_size, window_size = 1 included, and every
\* sequence of add_sample calls, check_leak on a full buffer with the
\* cooldown counter at 0 completes with no alert or with an alert; it never
\* fails with a division by zero or any other error.
C27_PositiveWindowNeverFails ==
    ( /\ ctor = "ok"
      /\ window_size >= 1
      /\ last.op = "check_leak"
      /\ Len(history) = window_size )
    => last.kind \in {"none", "alert"}

-----------------------------------------------------------------------------
(* The stated behaviour of a checker that owns a detector *)

StatedMemoryPercent(snapshot) == StatedNumeric(snapshot, <<"memory", "virtual", "percent">>)

StatedLeakAlerts(alerts) ==
    {i \in 1 .. Len(alerts) : alerts[i].rule.name = "Memory Leak Detected"}

StatedAfterAdd(cd) == IF cd > 0 THEN cd - 1 ELSE 0

\* C28: with leak detection enabled, a check whose snapshot has a numeric
\* memory.virtual.percent ingests exactly that one value and runs check_leak
\* exactly once, appending at most one leak alert after all rule alerts; when
\* the value is absent or not numeric the buffer and the cooldown counter are
\* unchanged and no leak alert is returned; the rules never change the
\* detector: its state after the check is what add_sample and check_leak
\* alone leave, whatever rules there are.
C28_CheckFeedsDetectorOnce ==
    [][ (last'.op = "check" /\ rules' = rules)
        => LET reading == StatedMemoryPercent(checked'.snapshot)
               hits == Cardinality(StatedTriggered(rules, checked'.snapshot))
           IN  /\ <<ctor, window_size, growth_threshold, cooldown_samples>>'
                     = <<ctor, window_size, growth_threshold, cooldown_samples>>
               /\ (ctor = "ok" /\ reading # {})
                  => /\ \E v \in reading : ingested' = Append(ingested, v)
                     /\ history' = StatedLastN(ingested', StatedMin(Len(ingested'), window_size))
                     /\ Len(log') = Len(log) + 1
                     /\ samples_since_alert'
                           = (IF last'.kind = "alert" THEN cooldown_samples
                              ELSE StatedAfterAdd(samples_since_alert))
                     /\ checked'.status = "ok"
                        => /\ Len(checked'.alerts)
                                 = hits + (IF last'.kind = "alert" THEN 1 ELSE 0)
                           /\ StatedLeakAlerts(checked'.alerts)
                                 = (IF last'.kind = "alert" THEN {hits + 1} ELSE {})
               /\ (ctor # "ok" \/ reading = {})
                  => /\ history' = history
                     /\ samples_since_alert' = samples_since_alert
                     /\ ingested' = ingested
                     /\ log' = log
                     /\ checked'.status = "ok"
                     /\ Len(checked'.alerts) = hits
                     /\ StatedLeakAlerts(checked'.alerts) = {} ]_vars

\* a check that returned one rule alert followed by the leak alert
C28_Witness ==
    /\ last.op = "check"
    /\ last.kind = "alert"
    /\ checked.status = "ok"
    /\ Len(checked.rules) = 2
    /\ Len(checked.alerts) = 3
    /\ checked.alerts[3].rule.name = "Memory Leak Detected"
    /\ checked.alerts[1].rule.name # "Memory Leak Detected"

-----------------------------------------------------------------------------
(* The stated independence of the tier from the exclusive memory *)

StatedTierSteps == {{95, 85}, {80, 75}, {70, 60}}

\* C29: the tier depends only on the resident-memory delta and the sample
\* count: two classifier inputs that differ only in the exclusive-memory
\* delta (present or absent, any growth and R2) get the same tier, and their
\* scores are equal or differ by the step within the tier (95 and 85, 80 and
\* 75, 70 and 60).
C29_TierIgnoresExclusiveMemory ==
    (twin.given /\ twin.out # NoVerdict)
    => /\ cout.tier = twin.out.tier
       /\ \/ cout.score = twin.out.score
          \/ {cout.score, twin.out.score} \in StatedTierSteps

\* the same five-sample growth, once with growing and once without
\* exclusive memory
C29_Witness ==
    /\ twin.given
    /\ cin.sample_count = 5
    /\ cin.uss.present
    /\ ~twin.uss.present
    /\ cout.tier = "high"
    /\ cout.score = 95
    /\ twin.out.score = 85

\* C30: whenever the first resident-memory sample is <= 0 (growth_percent is
\* then null; a process detail without an rss field reads as 0),
\* analyze_samples returns 'none' with score 10, for every sample count and
\* every later growth, trend, slope and R2.
C30_ZeroStartIsNone ==
    (Analyzed /\ samples # <<>> /\ samples[1].rss <= 0)
    => /\ analysis.status = "ok"
       /\ analysis.rss.growth_percent.null
       /\ analysis.confidence = "none"
       /\ analysis.score = 10

\* eight samples rising on an exact line from a first sample of 0
C30_Witness ==
    /\ analysis.status = "ok"
    /\ Len(samples) = 8
    /\ samples[1].rss = 0
    /\ samples[8].rss = 70
    /\ samples[8].uss = Opt(TRUE, 160)
    /\ analysis.rss.r_squared.n = analysis.rss.r_squared.d
    /\ analysis.confidence = "none"

====
